---- MODULE Spec2Model ----
(***************************************************************************)
(* A model of compile.py, the LuaASM -> NASM translator: class             *)
(* LuaASMParser (parse, the per-rule handlers, generate_code) and main.    *)
(*                                                                         *)
(* Text is modelled character by character: a Python str is a sequence of  *)
(* one-character strings, so that startswith / endswith / strip / split /  *)
(* lower, the regular expressions and the f-strings are computed the way   *)
(* the code computes them.  None is the empty tuple and a present value v  *)
(* is <<v>>; a dict is the sequence of its [k, v] items in insertion       *)
(* order, which is the order Python iterates it in.                        *)
(***************************************************************************)
EXTENDS Integers, Sequences, FiniteSets, TLC

(***************************************************************************)
(* Characters and the str methods the code uses.                           *)
(***************************************************************************)
LowerLetters == <<"a","b","c","d","e","f","g","h","i","j","k","l","m","n","o","p","q","r","s","t","u","v","w","x","y","z">>
UpperLetters == <<"A","B","C","D","E","F","G","H","I","J","K","L","M","N","O","P","Q","R","S","T","U","V","W","X","Y","Z">>
Digits == {"0","1","2","3","4","5","6","7","8","9"}
HexDigits == Digits \cup {"a","b","c","d","e","f","A","B","C","D","E","F"}
\* \w of the re module, on the ASCII characters of the model
WordChars == {LowerLetters[k] : k \in 1..26} \cup {UpperLetters[k] : k \in 1..26} \cup Digits \cup {"_"}
\* the characters str.strip() removes
Whitespace == {" ", "\t", "\n"}

None == <<>>
Some(v) == <<v>>
\* Python truthiness of an optional str: neither None nor ""
Truthy(opt) == opt # None /\ opt[1] # <<>>

StartsWith(s, p) == Len(s) >= Len(p) /\ SubSeq(s, 1, Len(p)) = p
EndsWith(s, p) == Len(s) >= Len(p) /\ SubSeq(s, Len(s) - Len(p) + 1, Len(s)) = p
\* s[a:b] for 0 <= a, with b counted from the end when negative
Slice(s, a, b) == SubSeq(s, a + 1, IF b < 0 THEN Len(s) + b ELSE b)

RECURSIVE LStrip(_)
LStrip(s) == IF s # <<>> /\ Head(s) \in Whitespace THEN LStrip(Tail(s)) ELSE s
RECURSIVE RStrip(_)
RStrip(s) == IF s # <<>> /\ s[Len(s)] \in Whitespace THEN RStrip(SubSeq(s, 1, Len(s) - 1)) ELSE s
Strip(s) == RStrip(LStrip(s))

LowerChar(c) == IF \E k \in 1..26 : UpperLetters[k] = c THEN LowerLetters[CHOOSE k \in 1..26 : UpperLetters[k] = c] ELSE c
Lower(s) == [k \in 1..Len(s) |-> LowerChar(s[k])]

\* str.split(sep) for a one-character sep: always at least one piece
RECURSIVE SplitOn(_, _)
SplitOn(s, sep) ==
  IF \E k \in 1..Len(s) : s[k] = sep
  THEN LET k == CHOOSE j \in 1..Len(s) : s[j] = sep /\ \A h \in 1..(j - 1) : s[h] # sep
       IN <<SubSeq(s, 1, k - 1)>> \o SplitOn(SubSeq(s, k + 1, Len(s)), sep)
  ELSE <<s>>
\* str.splitlines(): as split on the newline, without the empty piece a final newline leaves
SplitLines(s) ==
  IF s = <<>> THEN <<>>
  ELSE LET ps == SplitOn(s, "\n")
       IN IF ps[Len(ps)] = <<>> THEN SubSeq(ps, 1, Len(ps) - 1) ELSE ps
\* sep.join(parts)
RECURSIVE Join(_, _)
Join(parts, sep) ==
  IF parts = <<>> THEN <<>>
  ELSE IF Len(parts) = 1 THEN parts[1]
  ELSE parts[1] \o sep \o Join(Tail(parts), sep)

\* the end of the longest run of characters of cs that starts at position k (k - 1: no run)
RECURSIVE RunEnd(_, _, _)
RunEnd(s, k, cs) == IF k <= Len(s) /\ s[k] \in cs THEN RunEnd(s, k + 1, cs) ELSE k - 1
\* the last position j >= lo where s continues with p (0: none): where a greedy .+ or .* gives way to p
At(s, p, j) == j >= 1 /\ j + Len(p) - 1 <= Len(s) /\ SubSeq(s, j, j + Len(p) - 1) = p
LastAt(s, p, lo) ==
  LET js == {j \in lo..Len(s) : At(s, p, j)}
  IN IF js = {} THEN 0 ELSE CHOOSE j \in js : \A h \in js : h <= j

(***************************************************************************)
(* The regular expressions, each as re.match applies it: anchored at the   *)
(* start of the line only, greedy, with the groups it captures.            *)
(***************************************************************************)
NoMatch == [ok |-> FALSE, g |-> <<>>]
Match(groups) == [ok |-> TRUE, g |-> groups]

\* r'import (\w+) from (\w+)'
re_single_import(line) ==
  LET pre == <<"i","m","p","o","r","t"," ">>
      mid == <<" ","f","r","o","m"," ">>
      a1 == Len(pre) + 1
      e1 == RunEnd(line, a1, WordChars)
      a2 == e1 + Len(mid) + 1
      e2 == RunEnd(line, a2, WordChars)
  IN IF StartsWith(line, pre) /\ e1 >= a1 /\ At(line, mid, e1 + 1) /\ e2 >= a2
     THEN Match(<<SubSeq(line, a1, e1), SubSeq(line, a2, e2)>>)
     ELSE NoMatch

\* r'import \[(.+)\] from (\w+)'
re_multi_import(line) ==
  LET pre == <<"i","m","p","o","r","t"," ","[">>
      mid == <<"]"," ","f","r","o","m"," ">>
      a1 == Len(pre) + 1
      js == {j \in (a1 + 1)..Len(line) :
               At(line, mid, j) /\ RunEnd(line, j + Len(mid), WordChars) >= j + Len(mid)}
      j1 == CHOOSE j \in js : \A h \in js : h <= j
  IN IF StartsWith(line, pre) /\ js # {}
     THEN Match(<<SubSeq(line, a1, j1 - 1),
                  SubSeq(line, j1 + Len(mid), RunEnd(line, j1 + Len(mid), WordChars))>>)
     ELSE NoMatch

\* r'local (\w+) = import (\w+) from (\w+)'
re_local_import(line) ==
  LET pre == <<"l","o","c","a","l"," ">>
      mid1 == <<" ","="," ","i","m","p","o","r","t"," ">>
      mid2 == <<" ","f","r","o","m"," ">>
      a1 == Len(pre) + 1
      e1 == RunEnd(line, a1, WordChars)
      a2 == e1 + Len(mid1) + 1
      e2 == RunEnd(line, a2, WordChars)
      a3 == e2 + Len(mid2) + 1
      e3 == RunEnd(line, a3, WordChars)
  IN IF StartsWith(line, pre) /\ e1 >= a1 /\ At(line, mid1, e1 + 1) /\ e2 >= a2
        /\ At(line, mid2, e2 + 1) /\ e3 >= a3
     THEN Match(<<SubSeq(line, a1, e1), SubSeq(line, a2, e2), SubSeq(line, a3, e3)>>)
     ELSE NoMatch

\* r'#\!arch\[(.+)\]'
re_architecture(line) ==
  LET pre == <<"#","!","a","r","c","h","[">>
      a1 == Len(pre) + 1
      j1 == LastAt(line, <<"]">>, a1 + 1)
  IN IF StartsWith(line, pre) /\ j1 # 0
     THEN Match(<<SubSeq(line, a1, j1 - 1)>>)
     ELSE NoMatch

\* the alternatives of (start|pad|sign), in the order the pattern tries them
DirectiveNames == <<<<"s","t","a","r","t">>, <<"p","a","d">>, <<"s","i","g","n">>>>

\* (0x[a-fA-F0-9]+|\d+) at position a, followed by p: the end of the value (0: no match)
NumeralEnd(line, a, p) ==
  LET eh == RunEnd(line, a + 2, HexDigits)
      ed == RunEnd(line, a, Digits)
  IN IF At(line, <<"0","x">>, a) /\ eh >= a + 2 /\ At(line, p, eh + 1) THEN eh
     ELSE IF ed >= a /\ At(line, p, ed + 1) THEN ed
     ELSE 0

\* r'#\!\[(start|pad|sign)\((0x[a-fA-F0-9]+|\d+)\)\]'
re_directive(line) ==
  LET pre == <<"#","!","[">>
      a1 == Len(pre) + 1
      ks == {k \in 1..Len(DirectiveNames) : At(line, DirectiveNames[k] \o <<"(">>, a1)}
      k1 == CHOOSE k \in ks : \A h \in ks : k <= h
      a2 == a1 + Len(DirectiveNames[k1]) + 1
      e2 == NumeralEnd(line, a2, <<")","]">>)
  IN IF StartsWith(line, pre) /\ ks # {} /\ e2 # 0
     THEN Match(<<DirectiveNames[k1], SubSeq(line, a2, e2)>>)
     ELSE NoMatch

\* r'function (\w+)\((.*)\)'
re_function(line) ==
  LET pre == <<"f","u","n","c","t","i","o","n"," ">>
      a1 == Len(pre) + 1
      e1 == RunEnd(line, a1, WordChars)
      j1 == LastAt(line, <<")">>, e1 + 2)
  IN IF StartsWith(line, pre) /\ e1 >= a1 /\ At(line, <<"(">>, e1 + 1) /\ j1 # 0
     THEN Match(<<SubSeq(line, a1, e1), SubSeq(line, e1 + 2, j1 - 1)>>)
     ELSE NoMatch

\* r'^\w+\(.*\)$'
re_call(line) ==
  LET e1 == RunEnd(line, 1, WordChars)
  IN e1 >= 1 /\ At(line, <<"(">>, e1 + 1) /\ Len(line) >= e1 + 2 /\ line[Len(line)] = ")"

(***************************************************************************)
(* dict: the items in insertion order; assigning to a key that is present  *)
(* keeps its place.                                                        *)
(***************************************************************************)
DictKeys(d) == {d[n].k : n \in 1..Len(d)}
DictGet(d, key) == d[CHOOSE n \in 1..Len(d) : d[n].k = key].v
DictSet(d, key, val) ==
  IF key \in DictKeys(d)
  THEN [n \in 1..Len(d) |-> IF d[n].k = key THEN [k |-> key, v |-> val] ELSE d[n]]
  ELSE Append(d, [k |-> key, v |-> val])
\* for key in keys: d[key] = val
RECURSIVE DictSetAll(_, _, _)
DictSetAll(d, keys, val) ==
  IF keys = <<>> THEN d ELSE DictSetAll(DictSet(d, Head(keys), val), Tail(keys), val)
\* [x.strip() for x in parts]
StripAll(parts) == [n \in 1..Len(parts) |-> Strip(parts[n])]

(***************************************************************************)
(* LuaASMParser.  A parser object is the record of its fields; a method is *)
(* an operator from the object (and its arguments) to the object after the *)
(* call, the exception it raised (None: it returned) and what it returned. *)
(***************************************************************************)
NewParser ==
  [architecture |-> None,
   directives |-> <<[k |-> <<"p","a","d">>, v |-> None], [k |-> <<"s","i","g","n">>, v |-> None],
                    [k |-> <<"s","t","a","r","t">>, v |-> None]>>,
   functions |-> <<>>,
   current_function |-> None,
   code_outside_functions |-> <<>>,
   imports |-> <<>>,
   inline_asm |-> <<>>]

Returns(self, val) == [self |-> self, exc |-> None, ret |-> val]
Raises(self, type, msg) == [self |-> self, exc |-> Some([type |-> type, msg |-> msg]), ret |-> None]

\* _parse_import_definition that does not trim the names of a multi import
_parse_import_definition_NoStrip(self, line) ==
  LET single_import == re_single_import(line)
      multi_import == re_multi_import(line)
  IN IF single_import.ok
     THEN Returns([self EXCEPT !.imports = DictSet(@, single_import.g[1], single_import.g[2])], None)
     ELSE IF multi_import.ok
     THEN Returns([self EXCEPT !.imports =
                     DictSetAll(@, SplitOn(multi_import.g[1], ","), multi_import.g[2])], None)
     ELSE Raises(self, "SyntaxError", <<"I","n","v","a","l","i","d"," ","i","m","p","o","r","t"," ","s","t","a","t","e","m","e","n","t",":"," ">> \o line)

_parse_import_definition(self, line) ==
  LET single_import == re_single_import(line)
      multi_import == re_multi_import(line)
      local_import == re_local_import(line)
  IN IF single_import.ok
     THEN Returns([self EXCEPT !.imports = DictSet(@, single_import.g[1], single_import.g[2])], None)
     ELSE IF multi_import.ok
     THEN Returns([self EXCEPT !.imports =
                     DictSetAll(@, StripAll(SplitOn(multi_import.g[1], ",")), multi_import.g[2])], None)
     ELSE IF local_import.ok
     THEN Returns([self EXCEPT !.imports =
                     DictSet(@, local_import.g[1], local_import.g[3] \o <<".">> \o local_import.g[2])], None)
     ELSE Raises(self, "SyntaxError", <<"I","n","v","a","l","i","d"," ","i","m","p","o","r","t"," ","s","t","a","t","e","m","e","n","t",":"," ">> \o line)

_parse_architecture(self, line) ==
  LET match == re_architecture(line)
  IN IF match.ok
     THEN Returns([self EXCEPT !.architecture = Some(match.g[1])], None)
     ELSE Raises(self, "SyntaxError", <<"I","n","v","a","l","i","d"," ","a","r","c","h","i","t","e","c","t","u","r","e"," ","d","e","f","i","n","i","t","i","o","n",":"," ">> \o line)

\* _parse_inline_asm that hands back a line without the asm( ) envelope instead of raising
_parse_inline_asm_PassThrough(self, line) ==
  IF StartsWith(line, <<"a","s","m","(">>) /\ EndsWith(line, <<")">>)
  THEN Returns([self EXCEPT !.inline_asm = Append(@, Strip(Slice(line, 4, -1)))], None)
  ELSE Returns(self, Some(line))

_parse_inline_asm(self, line) ==
  IF StartsWith(line, <<"a","s","m","(">>) /\ EndsWith(line, <<")">>)
  THEN Returns([self EXCEPT !.inline_asm = Append(@, Strip(Slice(line, 4, -1)))], None)
  ELSE Raises(self, "SyntaxError", <<"I","n","v","a","l","i","d"," ","i","n","l","i","n","e"," ","a","s","s","e","m","b","l","y"," ","f","o","r","m","a","t",":"," ">> \o line)

\* _parse_directive that keeps the first value of a directive
_parse_directive_FirstWins(self, line) ==
  LET match == re_directive(line)
  IN IF match.ok
     THEN IF DictGet(self.directives, match.g[1]) = None
          THEN Returns([self EXCEPT !.directives = DictSet(@, match.g[1], Some(match.g[2]))], None)
          ELSE Returns(self, None)
     ELSE Raises(self, "SyntaxError", <<"I","n","v","a","l","i","d"," ","d","i","r","e","c","t","i","v","e"," ","f","o","r","m","a","t",":"," ">> \o line)

\* _parse_directive that ignores a line its pattern does not match
_parse_directive_Lenient(self, line) ==
  LET match == re_directive(line)
  IN IF match.ok
     THEN Returns([self EXCEPT !.directives = DictSet(@, match.g[1], Some(match.g[2]))], None)
     ELSE Returns(self, None)

_parse_directive(self, line) ==
  LET match == re_directive(line)
  IN IF match.ok
     THEN Returns([self EXCEPT !.directives = DictSet(@, match.g[1], Some(match.g[2]))], None)
     ELSE Raises(self, "SyntaxError", <<"I","n","v","a","l","i","d"," ","d","i","r","e","c","t","i","v","e"," ","f","o","r","m","a","t",":"," ">> \o line)

\* _parse_function_definition that first stores a function that is still open
_parse_function_definition_Flush(self, line) ==
  LET match == re_function(line)
      params == IF match.g[2] # <<>> THEN StripAll(SplitOn(match.g[2], ",")) ELSE <<>>
      stored == IF self.current_function # None
                THEN DictSet(self.functions, self.current_function[1].name, self.current_function[1])
                ELSE self.functions
  IN IF match.ok
     THEN Returns([self EXCEPT !.functions = stored,
                               !.current_function =
                                 Some([name |-> match.g[1], params |-> params, body |-> <<>>])], None)
     ELSE Raises(self, "SyntaxError", <<"I","n","v","a","l","i","d"," ","f","u","n","c","t","i","o","n"," ","d","e","f","i","n","i","t","i","o","n",":"," ">> \o line)

\* _parse_function_definition that does not trim the parameters
_parse_function_definition_NoStrip(self, line) ==
  LET match == re_function(line)
      params == IF match.g[2] # <<>> THEN SplitOn(match.g[2], ",") ELSE <<>>
  IN IF match.ok
     THEN Returns([self EXCEPT !.current_function =
                     Some([name |-> match.g[1], params |-> params, body |-> <<>>])], None)
     ELSE Raises(self, "SyntaxError", <<"I","n","v","a","l","i","d"," ","f","u","n","c","t","i","o","n"," ","d","e","f","i","n","i","t","i","o","n",":"," ">> \o line)

_parse_function_definition(self, line) ==
  LET match == re_function(line)
      params == IF match.g[2] # <<>> THEN StripAll(SplitOn(match.g[2], ",")) ELSE <<>>
  IN IF match.ok
     THEN Returns([self EXCEPT !.current_function =
                     Some([name |-> match.g[1], params |-> params, body |-> <<>>])], None)
     ELSE Raises(self, "SyntaxError", <<"I","n","v","a","l","i","d"," ","f","u","n","c","t","i","o","n"," ","d","e","f","i","n","i","t","i","o","n",":"," ">> \o line)

\* _end_function_definition over a list of functions: every end adds an item
_end_function_definition_Append(self) ==
  IF self.current_function # None
  THEN Returns([self EXCEPT !.functions =
                              Append(@, [k |-> self.current_function[1].name, v |-> self.current_function[1]]),
                            !.current_function = None], None)
  ELSE Returns(self, None)

\* _end_function_definition that rejects an end with no function open
_end_function_definition_Strict(self) ==
  IF self.current_function # None
  THEN Returns([self EXCEPT !.functions = DictSet(@, self.current_function[1].name, self.current_function[1]),
                            !.current_function = None], None)
  ELSE Raises(self, "SyntaxError", <<"e","n","d">>)

_end_function_definition(self) ==
  IF self.current_function # None
  THEN Returns([self EXCEPT !.functions = DictSet(@, self.current_function[1].name, self.current_function[1]),
                            !.current_function = None], None)
  ELSE Returns(self, None)

\* _parse_function_call that records a call of an open function in the free statements too
_parse_function_call_Both(self, line) ==
  LET func_call == Strip(line)
  IN IF self.current_function # None
     THEN Returns([self EXCEPT !.current_function[1].body = Append(@, func_call),
                               !.code_outside_functions = Append(@, func_call)], None)
     ELSE Returns([self EXCEPT !.code_outside_functions = Append(@, func_call)], None)

\* _parse_function_call that does not look at the open function
_parse_function_call_AlwaysFree(self, line) ==
  Returns([self EXCEPT !.code_outside_functions = Append(@, Strip(line))], None)

_parse_function_call(self, line) ==
  LET func_call == Strip(line)
  IN IF self.current_function # None
     THEN Returns([self EXCEPT !.current_function[1].body = Append(@, func_call)], None)
     ELSE Returns([self EXCEPT !.code_outside_functions = Append(@, func_call)], None)

\* _parse_executable_code that puts the line in the body of an open function
_parse_executable_code_IntoBody(self, line) ==
  IF self.current_function # None
  THEN Returns([self EXCEPT !.current_function[1].body = Append(@, Strip(line))], None)
  ELSE Returns([self EXCEPT !.code_outside_functions = Append(@, Strip(line))], None)

_parse_executable_code(self, line) ==
  Returns([self EXCEPT !.code_outside_functions = Append(@, Strip(line))], None)

\* Rule with the call pattern tested before the prefixes
Rule_CallFirst(line) ==
  IF re_call(line) THEN 6
  ELSE IF StartsWith(line, <<"i","m","p","o","r","t">>) THEN 1
  ELSE IF StartsWith(line, <<"#","!","a","r","c","h","[">>) THEN 2
  ELSE IF StartsWith(line, <<"#","!","[">>) THEN 3
  ELSE IF StartsWith(line, <<"f","u","n","c","t","i","o","n">>) THEN 4
  ELSE IF line = <<"e","n","d">> THEN 5
  ELSE IF StartsWith(line, <<"a","s","m","(">>) /\ EndsWith(line, <<")">>) THEN 7
  ELSE 8

\* the rule parse applies to a line, as the position of its branch in the if/elif chain
Rule(line) ==
  IF StartsWith(line, <<"i","m","p","o","r","t">>) THEN 1
  ELSE IF StartsWith(line, <<"#","!","a","r","c","h","[">>) THEN 2
  ELSE IF StartsWith(line, <<"#","!","[">>) THEN 3
  ELSE IF StartsWith(line, <<"f","u","n","c","t","i","o","n">>) THEN 4
  ELSE IF line = <<"e","n","d">> THEN 5
  ELSE IF re_call(line) THEN 6
  ELSE IF StartsWith(line, <<"a","s","m","(">>) /\ EndsWith(line, <<")">>) THEN 7
  ELSE 8

\* one pass of the loop of parse over a raw line
ParseOne(self, raw) ==
  LET line == Strip(raw)
      rule == Rule(line)
  IN IF line = <<>> THEN Returns(self, None)
     ELSE CASE rule = 1 -> _parse_import_definition(self, line)
            [] rule = 2 -> _parse_architecture(self, line)
            [] rule = 3 -> _parse_directive(self, line)
            [] rule = 4 -> _parse_function_definition(self, line)
            [] rule = 5 -> _end_function_definition(self)
            [] rule = 6 -> _parse_function_call(self, line)
            [] rule = 7 -> _parse_inline_asm(self, line)
            [] OTHER -> _parse_executable_code(self, line)

\* Bits that compares the tag as written
Bits_CaseSensitive(architecture) ==
  IF architecture = <<"x","8","6">> THEN <<"B","I","T","S"," ","3","2">>
  ELSE IF architecture = <<"x","6","4">> THEN <<"B","I","T","S"," ","6","4">>
  ELSE IF architecture = <<"x","1","6">> THEN <<"B","I","T","S"," ","1","6">>
  ELSE <<"B","I","T","S"," ","3","2">>

\* the bit-width line of an architecture tag
Bits(architecture) ==
  IF Lower(architecture) = <<"x","8","6">> THEN <<"B","I","T","S"," ","3","2">>
  ELSE IF Lower(architecture) = <<"x","6","4">> THEN <<"B","I","T","S"," ","6","4">>
  ELSE IF Lower(architecture) = <<"x","1","6">> THEN <<"B","I","T","S"," ","1","6">>
  ELSE <<"B","I","T","S"," ","3","2">>

EntryLines == <<<<"_","s","t","a","r","t",":">>, <<" "," ","p","u","s","h"," ","2">>, <<" "," ","p","u","s","h"," ","3">>, <<" "," ","p","u","s","h"," ","5">>, <<" "," ","c","a","l","l"," ","a","d","d">>, <<" "," ","a","d","d"," ","e","s","p",","," ","1","2">>>>
FunctionBody == <<<<" "," ","m","o","v"," ","e","a","x",","," ","[","e","s","p"," ","+"," ","4","]">>, <<" "," ","a","d","d"," ","e","a","x",","," ","[","e","s","p"," ","+"," ","8","]">>, <<" "," ","a","d","d"," ","e","a","x",","," ","[","e","s","p"," ","+"," ","1","2","]">>, <<" "," ","r","e","t">>>>

HeaderLines(self) ==
  (IF Truthy(self.architecture) THEN <<Bits(self.architecture[1])>> ELSE <<>>)
  \o (IF Truthy(DictGet(self.directives, <<"s","t","a","r","t">>))
      THEN <<<<"O","R","G"," ">> \o DictGet(self.directives, <<"s","t","a","r","t">>)[1]>> ELSE <<>>)
FreeLines(self) ==
  [n \in 1..Len(self.code_outside_functions) |-> <<" "," ">> \o self.code_outside_functions[n]]
RECURSIVE FunctionLines(_)
FunctionLines(fs) ==
  IF fs = <<>> THEN <<>>
  ELSE <<fs[1].v.name \o <<":">>>> \o FunctionBody \o FunctionLines(Tail(fs))
TrailerLines(self) ==
  (IF Truthy(DictGet(self.directives, <<"p","a","d">>))
   THEN <<<<" "," ","t","i","m","e","s"," ">> \o DictGet(self.directives, <<"p","a","d">>)[1] \o <<" ","-"," ","(","$"," ","-"," ","$","$",")"," ","d","b"," ","0">>>> ELSE <<>>)
  \o (IF Truthy(DictGet(self.directives, <<"s","i","g","n">>))
      THEN <<<<" "," ","d","w"," ">> \o DictGet(self.directives, <<"s","i","g","n">>)[1] \o <<" "," ",";"," ","S","i","g","n","a","t","u","r","e">>>> ELSE <<>>)

\* the loop `for asm in self.inline_asm: output.append(self._parse_inline_asm(asm))`
\* from item k on: the list is read by position, so what the calls append is visited too
RECURSIVE InlineAsmLoop(_, _, _)
InlineAsmLoop(self, output, k) ==
  IF k > Len(self.inline_asm) THEN [self |-> self, exc |-> None, ret |-> output]
  ELSE LET r == _parse_inline_asm(self, self.inline_asm[k])
       IN IF r.exc # None THEN r
          ELSE InlineAsmLoop(r.self, Append(output, r.ret), k + 1)

SomeAll(ls) == [n \in 1..Len(ls) |-> Some(ls[n])]
Unwrap(out) == [n \in 1..Len(out) |-> out[n][1]]

\* generate_code that emits the function that is still open as well
generate_code_FlushOpen(self) ==
  LET open == IF self.current_function # None
              THEN <<[k |-> self.current_function[1].name, v |-> self.current_function[1]]>> ELSE <<>>
      before == SomeAll(HeaderLines(self) \o EntryLines \o FreeLines(self)
                        \o FunctionLines(self.functions \o open))
      loop == InlineAsmLoop(self, before, 1)
      output == loop.ret \o SomeAll(TrailerLines(loop.self))
  IN IF loop.exc # None THEN loop
     ELSE IF \E n \in 1..Len(output) : output[n] = None
     THEN Raises(loop.self, "TypeError", <<"e","x","p","e","c","t","e","d"," ","s","t","r"," ","i","n","s","t","a","n","c","e",","," ","N","o","n","e","T","y","p","e"," ","f","o","u","n","d">>)
     ELSE Returns(loop.self, Join(Unwrap(output), <<"\n">>))

\* generate_code that empties the list of free statements as it emits them
generate_code_Drain(self) ==
  LET before == SomeAll(HeaderLines(self) \o EntryLines \o FreeLines(self) \o FunctionLines(self.functions))
      loop == InlineAsmLoop([self EXCEPT !.code_outside_functions = <<>>], before, 1)
      output == loop.ret \o SomeAll(TrailerLines(loop.self))
  IN IF loop.exc # None THEN loop
     ELSE IF \E n \in 1..Len(output) : output[n] = None
     THEN Raises(loop.self, "TypeError", <<"e","x","p","e","c","t","e","d"," ","s","t","r"," ","i","n","s","t","a","n","c","e",","," ","N","o","n","e","T","y","p","e"," ","f","o","u","n","d">>)
     ELSE Returns(loop.self, Join(Unwrap(output), <<"\n">>))

\* generate_code with the trailers emitted before the function labels
generate_code_TrailersFirst(self) ==
  LET before == SomeAll(HeaderLines(self) \o EntryLines \o FreeLines(self) \o TrailerLines(self))
      loop == InlineAsmLoop(self, before \o SomeAll(FunctionLines(self.functions)), 1)
  IN IF loop.exc # None THEN loop
     ELSE IF \E n \in 1..Len(loop.ret) : loop.ret[n] = None
     THEN Raises(loop.self, "TypeError", <<"e","x","p","e","c","t","e","d"," ","s","t","r"," ","i","n","s","t","a","n","c","e",","," ","N","o","n","e","T","y","p","e"," ","f","o","u","n","d">>)
     ELSE Returns(loop.self, Join(Unwrap(loop.ret), <<"\n">>))

\* output holds an optional str per entry: a str the code appended, or the None a call returned
generate_code(self) ==
  LET before == SomeAll(HeaderLines(self) \o EntryLines \o FreeLines(self) \o FunctionLines(self.functions))
      loop == InlineAsmLoop(self, before, 1)
      output == loop.ret \o SomeAll(TrailerLines(loop.self))
  IN IF loop.exc # None THEN loop
     ELSE IF \E n \in 1..Len(output) : output[n] = None
     THEN Raises(loop.self, "TypeError", <<"e","x","p","e","c","t","e","d"," ","s","t","r"," ","i","n","s","t","a","n","c","e",","," ","N","o","n","e","T","y","p","e"," ","f","o","u","n","d">>)
     ELSE Returns(loop.self, Join(Unwrap(output), <<"\n">>))

(***************************************************************************)
(* bytes: str.encode('utf-8') of the ASCII text of the model, one byte per *)
(* character.                                                              *)
(***************************************************************************)
\* the characters 32..95 and 97..126 in code order (96, the grave accent, is not in the model's text)
PrintableLow == <<" ","!","\"","#","$","%","&","'","(",")","*","+",",","-",".","/","0","1","2","3","4","5","6","7","8","9",":",";","<","=",">","?","@","A","B","C","D","E","F","G","H","I","J","K","L","M","N","O","P","Q","R","S","T","U","V","W","X","Y","Z","[","\\","]","^","_">>
PrintableHigh == <<"a","b","c","d","e","f","g","h","i","j","k","l","m","n","o","p","q","r","s","t","u","v","w","x","y","z","{","|","}","~">>
Ord(c) ==
  IF c = "\n" THEN 10
  ELSE IF c = "\t" THEN 9
  ELSE IF \E k \in 1..Len(PrintableLow) : PrintableLow[k] = c
  THEN 31 + (CHOOSE k \in 1..Len(PrintableLow) : PrintableLow[k] = c)
  ELSE 96 + (CHOOSE k \in 1..Len(PrintableHigh) : PrintableHigh[k] = c)
Encode(s) == [n \in 1..Len(s) |-> Ord(s[n])]

(***************************************************************************)
(* The source files the model translates.                                  *)
(***************************************************************************)
\* the longest source made of arbitrary lines of the pool
MaxLines == 2

FuncNames == {<<"f">>, <<"g">>}
ModuleNames == {<<"m">>, <<"n">>}
SingleImport(f, m) == <<"i","m","p","o","r","t"," ">> \o f \o <<" ","f","r","o","m"," ">> \o m
MultiImport(fs, m) == <<"i","m","p","o","r","t"," ","[">> \o Join(fs, <<","," ">>) \o <<"]"," ","f","r","o","m"," ">> \o m
LocalImport(x, f, m) == <<"l","o","c","a","l"," ">> \o x \o <<" ","="," ","i","m","p","o","r","t"," ">> \o f \o <<" ","f","r","o","m"," ">> \o m
ArchLine(tag) == <<"#","!","a","r","c","h","[">> \o tag \o <<"]">>
DirectiveLine(name, num) == <<"#","!","[">> \o name \o <<"(">> \o num \o <<")","]">>
FunctionLine(name, params) == <<"f","u","n","c","t","i","o","n"," ">> \o name \o <<"(">> \o Join(params, <<","," ">>) \o <<")">>

SingleImportLines == {SingleImport(f, m) : f \in FuncNames, m \in ModuleNames}
MultiImportLines == {MultiImport(<<<<"f">>, <<"g">>>>, <<"n">>), MultiImport(<<<<"g">>>>, <<"m">>)}
LocalImportLines == {LocalImport(<<"x">>, <<"f">>, <<"m">>)}
ArchTags == {<<"x","8","6">>, <<"X","6","4">>, <<"x","6","4">>, <<"x","1","6">>, <<"a","r","m">>}
ArchLines == {ArchLine(t) : t \in ArchTags}
DirectiveLines ==
  {DirectiveLine(<<"s","t","a","r","t">>, <<"0","x","1","0","0","0">>), DirectiveLine(<<"p","a","d">>, <<"0","x","1","0","0">>),
   DirectiveLine(<<"p","a","d">>, <<"5","1","2">>), DirectiveLine(<<"s","i","g","n">>, <<"0","x","A","A","5","5">>)}
FunctionLines3 == FunctionLine(<<"a","d","d">>, <<<<"a">>, <<"b">>, <<"c">>>>)
FunctionDefLines ==
  {FunctionLine(<<"f">>, <<<<"a">>, <<"b">>>>), FunctionLine(<<"g">>, <<>>), FunctionLines3}
CallLines == {<<"f","o","o","(","1",",","2",")">>, <<"a","d","d","(","a",","," ","b",","," ","c",")">>}
AsmLines == {<<"a","s","m","(","n","o","p",")">>, <<"a","s","m","(","a","s","m","(","n","o","p",")",")">>}
FreeLinesPool == {<<"m","o","v"," ","e","a","x",","," ","1">>}
\* lines that meet a rule's prefix and fail its pattern
MalformedLines == {<<"i","m","p","o","r","t","a","n","t","(","1",")">>, <<"#","!","a","r","c","h","[","]">>, <<"#","!","[","f","o","o","(","1",")","]">>, <<"f","u","n","c","t","i","o","n","a","l","(","x",")">>}
\* a blank line, and lines with white space around them
PaddedLines == {<<>>, <<" "," ","e","n","d","\t">>, <<"\t","f","o","o","(","1",",","2",")"," ">>}
EndLine == <<"e","n","d">>

Pool ==
  SingleImportLines \cup MultiImportLines \cup LocalImportLines \cup ArchLines
  \cup DirectiveLines \cup FunctionDefLines \cup {EndLine} \cup CallLines \cup AsmLines
  \cup FreeLinesPool \cup MalformedLines \cup PaddedLines

\* the round-trip scenario
RoundTrip ==
  <<ArchLine(<<"x","6","4">>), DirectiveLine(<<"s","t","a","r","t">>, <<"0","x","1","0","0","0">>), FunctionLines3,
    <<"a","d","d","(","a",","," ","b",","," ","c",")">>, EndLine, DirectiveLine(<<"s","i","g","n">>, <<"0","x","A","A","5","5">>)>>
Scenarios ==
  {RoundTrip,
   <<FunctionLine(<<"f">>, <<<<"a">>, <<"b">>>>), <<"f","o","o","(","1",",","2",")">>, <<"m","o","v"," ","e","a","x",","," ","1">>, EndLine, <<"f","o","o","(","1",",","2",")">>>>,
   <<FunctionLine(<<"f">>, <<<<"a">>, <<"b">>>>), <<"f","o","o","(","1",",","2",")">>, FunctionLine(<<"g">>, <<>>), EndLine, EndLine>>,
   <<FunctionLine(<<"f">>, <<<<"a">>, <<"b">>>>), EndLine, FunctionLine(<<"g">>, <<>>), EndLine,
     FunctionLine(<<"f">>, <<>>), <<"f","o","o","(","1",",","2",")">>, EndLine>>,
   <<DirectiveLine(<<"p","a","d">>, <<"0","x","1","0","0">>), <<"a","s","m","(","n","o","p",")">>, FunctionLine(<<"g">>, <<>>), <<"a","s","m","(","n","o","p",")">>, EndLine,
     DirectiveLine(<<"p","a","d">>, <<"5","1","2">>)>>,
   <<SingleImport(<<"f">>, <<"m">>), MultiImport(<<<<"f">>, <<"g">>>>, <<"n">>), SingleImport(<<"g">>, <<"m">>),
     LocalImport(<<"x">>, <<"f">>, <<"m">>)>>,
   <<ArchLine(<<"x","1","6">>), <<"f","o","o","(","1",",","2",")">>, <<"#","!","[","f","o","o","(","1",")","]">>, ArchLine(<<"x","6","4">>), <<"f","o","o","(","1",",","2",")">>>>}

SeqsUpTo(S, n) == UNION {[1..k -> S] : k \in 0..n}
Sources == SeqsUpTo(Pool, MaxLines) \cup Scenarios

(***************************************************************************)
(* State.                                                                  *)
(***************************************************************************)
VARIABLES
  lines,                   \* parse: code.strip().splitlines()
  i,                       \* parse: the lines the loop has gone through
  pc,                      \* where the run is: "parse", "write", "done", "error"; "unit": no run, see SpecUnit
  architecture,            \* the fields of the LuaASMParser
  directives,
  functions,
  current_function,
  code_outside_functions,
  imports,
  inline_asm,
  exc,                     \* the exception that ended the run, or None
  output_code,             \* main: what generate_code returned, or None
  out_file                 \* the bytes of the file at output_path, or None while it is not written

vars == <<lines, i, pc, architecture, directives, functions, current_function,
          code_outside_functions, imports, inline_asm, exc, output_code, out_file>>

\* the parser object of the state
Self ==
  [architecture |-> architecture, directives |-> directives, functions |-> functions,
   current_function |-> current_function, code_outside_functions |-> code_outside_functions,
   imports |-> imports, inline_asm |-> inline_asm]
SetSelf(p) ==
  /\ architecture' = p.architecture
  /\ directives' = p.directives
  /\ functions' = p.functions
  /\ current_function' = p.current_function
  /\ code_outside_functions' = p.code_outside_functions
  /\ imports' = p.imports
  /\ inline_asm' = p.inline_asm

Constructed ==
  /\ architecture = NewParser.architecture
  /\ directives = NewParser.directives
  /\ functions = NewParser.functions
  /\ current_function = NewParser.current_function
  /\ code_outside_functions = NewParser.code_outside_functions
  /\ imports = NewParser.imports
  /\ inline_asm = NewParser.inline_asm
  /\ exc = None
  /\ output_code = None
  /\ out_file = None

\* main has read the file and built the parser; parse has split the text
Init ==
  /\ \E src \in Sources : lines = SplitLines(Strip(Join(src, <<"\n">>)))
  /\ i = 0
  /\ pc = "parse"
  /\ Constructed

\* parse: one pass of the loop; an exception ends the run
ParseLine ==
  /\ pc = "parse"
  /\ i < Len(lines)
  /\ LET r == ParseOne(Self, lines[i + 1])
     IN /\ SetSelf(r.self)
        /\ exc' = r.exc
        /\ i' = IF r.exc = None THEN i + 1 ELSE i
        /\ pc' = IF r.exc = None THEN "parse" ELSE "error"
  /\ UNCHANGED <<lines, output_code, out_file>>

\* main: parse has returned; output_code = parser.generate_code()
GenerateCode ==
  /\ pc = "parse"
  /\ i = Len(lines)
  /\ LET r == generate_code(Self)
     IN /\ SetSelf(r.self)
        /\ exc' = r.exc
        /\ output_code' = IF r.exc = None THEN Some(r.ret) ELSE None
        /\ pc' = IF r.exc = None THEN "write" ELSE "error"
  /\ UNCHANGED <<lines, i, out_file>>

\* main: f.write(output_code.encode('utf-8'))
WriteOutput ==
  /\ pc = "write"
  /\ out_file' = Some(Encode(output_code[1]))
  /\ pc' = "done"
  /\ UNCHANGED <<lines, i, architecture, directives, functions, current_function,
                 code_outside_functions, imports, inline_asm, exc, output_code>>

Next == ParseLine \/ GenerateCode \/ WriteOutput

Spec == Init /\ [][Next]_vars

(***************************************************************************)
(* The parser object on its own: a caller that hands lines to              *)
(* _parse_inline_asm and then asks for the code.                           *)
(***************************************************************************)
\* the most calls of _parse_inline_asm before generate_code
MaxAsm == 3

UnitLines == AsmLines \cup {<<"a","s","m","("," "," ","m","o","v"," ","e","a","x",","," ","1"," ",")">>, <<"a","s","m","(",")">>, <<"r","e","t">>}

InitUnit ==
  /\ lines = <<>>
  /\ i = 0
  /\ pc = "unit"
  /\ Constructed

UnitParseInlineAsm ==
  /\ pc = "unit"
  /\ Len(inline_asm) < MaxAsm
  /\ \E line \in UnitLines :
       LET r == _parse_inline_asm(Self, line)
       IN /\ SetSelf(r.self)
          /\ exc' = r.exc
          /\ pc' = IF r.exc = None THEN "unit" ELSE "error"
  /\ UNCHANGED <<lines, i, output_code, out_file>>

UnitGenerateCode ==
  /\ pc = "unit"
  /\ LET r == generate_code(Self)
     IN /\ SetSelf(r.self)
        /\ exc' = r.exc
        /\ output_code' = IF r.exc = None THEN Some(r.ret) ELSE None
        /\ pc' = IF r.exc = None THEN "returned" ELSE "error"
  /\ UNCHANGED <<lines, i, out_file>>

NextUnit == UnitParseInlineAsm \/ UnitGenerateCode

SpecUnit == InitUnit /\ [][NextUnit]_vars

(***************************************************************************)
(* Properties.                                                             *)
(***************************************************************************)
\* the line the loop of parse reads next, trimmed
NextLine == Strip(lines[i + 1])
\* the k-th line of the source, trimmed
LineAt(k) == Strip(lines[k])
\* generate_code has returned
Generated == pc \in {"write", "done"}
\* the lines of the text generate_code returned
OutLines == SplitOn(output_code[1], "\n")
Directive(name) == DictGet(directives, name)
IsSet(opt) == opt # None

\* C1: the generated text is, in this order: the bit-width line (if an architecture
\* is set), the ORG line (if start is set), the entry label and its five fixed
\* lines, the free statements indented by two spaces in their order, per function
\* of the table its label and the four fixed lines, the padding line (if pad is
\* set), the signature line (if sign is set); and the round-trip scenario gives
\* the 64-bit header, ORG 0x1000, the entry section, add: with its body, and the
\* signature line with 0xAA55.
C1_SectionOrder ==
  Generated =>
    LET out == OutLines
        nb == IF IsSet(architecture) THEN 1 ELSE 0
        no == IF IsSet(Directive(<<"s","t","a","r","t">>)) THEN 1 ELSE 0
        nf == Len(code_outside_functions)
        nfn == Len(functions)
        np == IF IsSet(Directive(<<"p","a","d">>)) THEN 1 ELSE 0
        ns == IF IsSet(Directive(<<"s","i","g","n">>)) THEN 1 ELSE 0
        e0 == nb + no
        f0 == e0 + 6
        g0 == f0 + nf
        t0 == g0 + 5 * nfn
    IN /\ inline_asm = <<>>
       /\ Len(out) = t0 + np + ns
       /\ nb = 1 => out[1] \in {<<"B","I","T","S"," ","1","6">>, <<"B","I","T","S"," ","3","2">>, <<"B","I","T","S"," ","6","4">>}
       /\ no = 1 => out[nb + 1] = <<"O","R","G"," ">> \o Directive(<<"s","t","a","r","t">>)[1]
       /\ SubSeq(out, e0 + 1, e0 + 6) =
            <<<<"_","s","t","a","r","t",":">>, <<" "," ","p","u","s","h"," ","2">>, <<" "," ","p","u","s","h"," ","3">>, <<" "," ","p","u","s","h"," ","5">>, <<" "," ","c","a","l","l"," ","a","d","d">>, <<" "," ","a","d","d"," ","e","s","p",","," ","1","2">>>>
       /\ \A k \in 1..nf : out[f0 + k] = <<" "," ">> \o code_outside_functions[k]
       /\ \A k \in 1..nfn :
            SubSeq(out, g0 + 5 * (k - 1) + 1, g0 + 5 * k) =
              <<functions[k].k \o <<":">>, <<" "," ","m","o","v"," ","e","a","x",","," ","[","e","s","p"," ","+"," ","4","]">>, <<" "," ","a","d","d"," ","e","a","x",","," ","[","e","s","p"," ","+"," ","8","]">>,
                <<" "," ","a","d","d"," ","e","a","x",","," ","[","e","s","p"," ","+"," ","1","2","]">>, <<" "," ","r","e","t">>>>
       /\ np = 1 => out[t0 + 1] = <<" "," ","t","i","m","e","s"," ">> \o Directive(<<"p","a","d">>)[1] \o <<" ","-"," ","(","$"," ","-"," ","$","$",")"," ","d","b"," ","0">>
       /\ ns = 1 => out[t0 + np + 1] = <<" "," ","d","w"," ">> \o Directive(<<"s","i","g","n">>)[1] \o <<" "," ",";"," ","S","i","g","n","a","t","u","r","e">>
       /\ lines = RoundTrip =>
            out = <<<<"B","I","T","S"," ","6","4">>, <<"O","R","G"," ","0","x","1","0","0","0">>, <<"_","s","t","a","r","t",":">>, <<" "," ","p","u","s","h"," ","2">>, <<" "," ","p","u","s","h"," ","3">>, <<" "," ","p","u","s","h"," ","5">>,
                    <<" "," ","c","a","l","l"," ","a","d","d">>, <<" "," ","a","d","d"," ","e","s","p",","," ","1","2">>, <<"a","d","d",":">>, <<" "," ","m","o","v"," ","e","a","x",","," ","[","e","s","p"," ","+"," ","4","]">>,
                    <<" "," ","a","d","d"," ","e","a","x",","," ","[","e","s","p"," ","+"," ","8","]">>, <<" "," ","a","d","d"," ","e","a","x",","," ","[","e","s","p"," ","+"," ","1","2","]">>, <<" "," ","r","e","t">>,
                    <<" "," ","d","w"," ","0","x","A","A","5","5"," "," ",";"," ","S","i","g","n","a","t","u","r","e">>>>
\* the round-trip scenario has been translated and written
C1_Witness == pc = "done" /\ lines = RoundTrip /\ out_file # None

\* C2: a line that begins with asm( and ends with ) is handled by the inline-assembly
\* rule: the text between, trimmed, is appended to inline_asm, and neither the free
\* statements nor the open function change.
C2_AsmLineIsInlineAsm ==
  [][(pc = "parse" /\ i < Len(lines) /\ i' = i + 1
      /\ StartsWith(NextLine, <<"a","s","m","(">>) /\ EndsWith(NextLine, <<")">>) /\ Rule(NextLine) > 5)
     => /\ inline_asm' = Append(inline_asm, Strip(Slice(NextLine, 4, -1)))
        /\ code_outside_functions' = code_outside_functions
        /\ current_function' = current_function]_vars

\* C3: after a line `local x = import f from m` the import table maps x to "m.f",
\* and the line is not among the free statements.
C3_LocalImportBinds ==
  \A x \in {<<"x">>}, f \in FuncNames, m \in ModuleNames :
    (pc = "parse" /\ i >= 1 /\ LineAt(i) = LocalImport(x, f, m))
    => /\ x \in DictKeys(imports)
       /\ DictGet(imports, x) = m \o <<".">> \o f
       /\ \A k \in 1..Len(code_outside_functions) : code_outside_functions[k] # LineAt(i)

\* a line that meets the prefix of the import, architecture, directive or function
\* rule and fails that rule's pattern
Malformed(l) ==
  \/ StartsWith(l, <<"i","m","p","o","r","t">>)
       /\ ~re_single_import(l).ok /\ ~re_multi_import(l).ok /\ ~re_local_import(l).ok
  \/ ~StartsWith(l, <<"i","m","p","o","r","t">>) /\ StartsWith(l, <<"#","!","a","r","c","h","[">>) /\ ~re_architecture(l).ok
  \/ ~StartsWith(l, <<"i","m","p","o","r","t">>) /\ ~StartsWith(l, <<"#","!","a","r","c","h","[">>) /\ StartsWith(l, <<"#","!","[">>)
       /\ ~re_directive(l).ok
  \/ ~StartsWith(l, <<"i","m","p","o","r","t">>) /\ ~StartsWith(l, <<"#","!","[">>) /\ StartsWith(l, <<"f","u","n","c","t","i","o","n">>)
       /\ ~re_function(l).ok
BadLines == {k \in 1..Len(lines) : Malformed(LineAt(k))}
FirstBad == CHOOSE k \in BadLines : \A h \in BadLines : k <= h

\* C4: when some line meets a rule's prefix and fails its pattern (such as #![foo(1)]),
\* the run never gets past the first such line: it fails there with a SyntaxError,
\* generate_code is not run and no file is written.
C4_FailFast ==
  /\ \A k \in 1..Len(lines) : LineAt(k) = <<"#","!","[","f","o","o","(","1",")","]">> => k \in BadLines
  /\ BadLines # {} =>
       /\ i < FirstBad
       /\ pc \in {"parse", "error"}
       /\ output_code = None
       /\ out_file = None
  /\ pc = "error" =>
       /\ BadLines # {}
       /\ i = FirstBad - 1
       /\ exc # None
       /\ exc[1].type = "SyntaxError"
\* #![foo(1)] as the third of five lines has ended the run, the two lines before it done
C4_Witness ==
  /\ pc = "error"
  /\ i = 2
  /\ Len(lines) = 5
  /\ LineAt(3) = <<"#","!","[","f","o","o","(","1",")","]">>
  /\ architecture = Some(<<"x","1","6">>)
  /\ out_file = None

\* the step of parse over a call-shaped line records it: in the free statements when
\* no function is open, else in the body of the open function
CallRecorded ==
  IF current_function = None
  THEN /\ code_outside_functions' = Append(code_outside_functions, NextLine)
       /\ current_function' = None
  ELSE /\ current_function' = Some([current_function[1] EXCEPT !.body = Append(@, NextLine)])
       /\ code_outside_functions' = code_outside_functions

\* C5 as stated: every call-shaped line is appended to the free statements when no
\* function is open, and to the open function's body (the free statements unchanged)
\* when one is.
C5_EveryCallShapedLine ==
  [][(pc = "parse" /\ i < Len(lines) /\ re_call(NextLine)) => CallRecorded]_vars

\* C5, amended: every call-shaped line that does not begin with `import` or
\* `function` is appended to the free statements when no function is open, and to
\* the open function's body (the free statements unchanged) when one is.
C5_CallLinesRecorded ==
  [][(pc = "parse" /\ i < Len(lines) /\ re_call(NextLine)
      /\ ~StartsWith(NextLine, <<"i","m","p","o","r","t">>) /\ ~StartsWith(NextLine, <<"f","u","n","c","t","i","o","n">>))
     => CallRecorded]_vars
\* foo(1,2) was read once inside f and once after its end
C5_Witness ==
  /\ pc = "parse"
  /\ i = 5
  /\ code_outside_functions = <<<<"m","o","v"," ","e","a","x",","," ","1">>, <<"f","o","o","(","1",",","2",")">>>>
  /\ Len(functions) = 1
  /\ functions[1].v.body = <<<<"f","o","o","(","1",",","2",")">>>>

\* the function lines of the sources, with the name and the parameters each declares
FunctionDecls ==
  {[name |-> <<"f">>, params |-> <<<<"a">>, <<"b">>>>],
   [name |-> <<"g">>, params |-> <<>>],
   [name |-> <<"f">>, params |-> <<>>],
   [name |-> <<"a","d","d">>, params |-> <<<<"a">>, <<"b">>, <<"c">>>>]}

\* C6: right after the `end` that follows `function f(a, b)` with no other function
\* or end line between them, the function table has exactly one entry under f, with
\* the parameters a, b in order (none for an empty list), and no function is open.
C6_FunctionStored ==
  \A d \in FunctionDecls, k \in 1..Len(lines) :
    (/\ k < i
     /\ LineAt(k) = FunctionLine(d.name, d.params)
     /\ LineAt(i) = <<"e","n","d">>
     /\ \A h \in (k + 1)..(i - 1) : ~StartsWith(LineAt(h), <<"f","u","n","c","t","i","o","n">>) /\ LineAt(h) # <<"e","n","d">>)
    => /\ Cardinality({n \in 1..Len(functions) : functions[n].k = d.name}) = 1
       /\ DictGet(functions, d.name).name = d.name
       /\ DictGet(functions, d.name).params = d.params
       /\ current_function = None
\* function f(a, b), two lines, end: the end has just been read
C6_Witness ==
  /\ pc = "parse"
  /\ i = 4
  /\ LineAt(1) = FunctionLine(<<"f">>, <<<<"a">>, <<"b">>>>)
  /\ LineAt(2) = <<"f","o","o","(","1",",","2",")">>
  /\ LineAt(4) = <<"e","n","d">>
  /\ Len(functions) = 1
  /\ functions[1].v.params = <<<<"a">>, <<"b">>>>

\* the width line the tags of the sources stand for
ExpectedBits(tag) ==
  IF tag \in {<<"x","8","6">>, <<"X","8","6">>} THEN <<"B","I","T","S"," ","3","2">>
  ELSE IF tag \in {<<"x","6","4">>, <<"X","6","4">>} THEN <<"B","I","T","S"," ","6","4">>
  ELSE IF tag \in {<<"x","1","6">>, <<"X","1","6">>} THEN <<"B","I","T","S"," ","1","6">>
  ELSE <<"B","I","T","S"," ","3","2">>
\* the architecture lines among the lines parse has gone through
ArchAt == {k \in 1..i : StartsWith(LineAt(k), <<"#","!","a","r","c","h","[">>)}
LastArch == CHOOSE k \in ArchAt : \A h \in ArchAt : h <= k

\* C7: the first line of the generated text declares the width of the last
\* architecture line of the source: 32, 64, 16 bits for x86, x64, x16 in any letter
\* case and 32 for any other tag; with no architecture line there is no width line
\* and the text starts with the ORG line or the entry label.
C7_BitWidthHeader ==
  Generated =>
    IF ArchAt = {}
    THEN /\ architecture = None
         /\ OutLines[1] = IF IsSet(Directive(<<"s","t","a","r","t">>))
                          THEN <<"O","R","G"," ">> \o Directive(<<"s","t","a","r","t">>)[1] ELSE <<"_","s","t","a","r","t",":">>
    ELSE \A tag \in ArchTags :
           LineAt(LastArch) = ArchLine(tag) => OutLines[1] = ExpectedBits(tag)
\* #!arch[x16] then #!arch[X64]: the text starts with BITS 64
C7_Witness ==
  /\ pc = "done"
  /\ Len(lines) = 2
  /\ LineAt(1) = <<"#","!","a","r","c","h","[","x","1","6","]">>
  /\ LineAt(2) = <<"#","!","a","r","c","h","[","X","6","4","]">>
  /\ OutLines[1] = <<"B","I","T","S"," ","6","4">>

\* the single and multi import lines of the sources, with what each declares
ImportDecls ==
  {[line |-> SingleImport(f, m), names |-> {f}, module |-> m] : f \in FuncNames, m \in ModuleNames}
  \cup {[line |-> <<"i","m","p","o","r","t"," ","[","f",","," ","g","]"," ","f","r","o","m"," ","n">>, names |-> {<<"f">>, <<"g">>}, module |-> <<"n">>],
        [line |-> <<"i","m","p","o","r","t"," ","[","g","]"," ","f","r","o","m"," ","m">>, names |-> {<<"g">>}, module |-> <<"m">>]}
ImportDeclAt(k) == CHOOSE d \in ImportDecls : d.line = LineAt(k)

\* C8: after any sequence of well-formed single and multi import lines, the keys of
\* the import table are the declared names and each maps to the module of the last
\* line that declared it.
C8_ImportsLastWins ==
  (\A k \in 1..i : \E d \in ImportDecls : d.line = LineAt(k)) =>
    LET declared == UNION {ImportDeclAt(k).names : k \in 1..i}
    IN /\ DictKeys(imports) = declared
       /\ Len(imports) = Cardinality(declared)
       /\ \A x \in declared :
            LET ks == {k \in 1..i : x \in ImportDeclAt(k).names}
                last == CHOOSE k \in ks : \A h \in ks : h <= k
            IN DictGet(imports, x) = ImportDeclAt(last).module
\* import f from m, import [f, g] from n, import g from m: f is n's and g is m's
C8_Witness ==
  /\ pc = "parse"
  /\ i = 3
  /\ LineAt(1) = <<"i","m","p","o","r","t"," ","f"," ","f","r","o","m"," ","m">>
  /\ LineAt(2) = <<"i","m","p","o","r","t"," ","[","f",","," ","g","]"," ","f","r","o","m"," ","n">>
  /\ LineAt(3) = <<"i","m","p","o","r","t"," ","g"," ","f","r","o","m"," ","m">>
  /\ DictGet(imports, <<"f">>) = <<"n">>
  /\ DictGet(imports, <<"g">>) = <<"m">>

\* the directive lines of the sources, with the name and the numeral of each
DirectiveDecls ==
  {[line |-> <<"#","!","[","s","t","a","r","t","(","0","x","1","0","0","0",")","]">>, name |-> <<"s","t","a","r","t">>, num |-> <<"0","x","1","0","0","0">>],
   [line |-> <<"#","!","[","p","a","d","(","0","x","1","0","0",")","]">>, name |-> <<"p","a","d">>, num |-> <<"0","x","1","0","0">>],
   [line |-> <<"#","!","[","p","a","d","(","5","1","2",")","]">>, name |-> <<"p","a","d">>, num |-> <<"5","1","2">>],
   [line |-> <<"#","!","[","s","i","g","n","(","0","x","A","A","5","5",")","]">>, name |-> <<"s","i","g","n">>, num |-> <<"0","x","A","A","5","5">>]}

\* C9: the directive table always has exactly the keys start, pad and sign; each
\* value is unset or the numeral of the most recent directive line for that name;
\* and when pad is set the generated text has the padding line with that numeral
\* (#![pad(0x100)] gives pad = "0x100" and a padding line with 0x100).
C9_DirectiveTable ==
  /\ Len(directives) = 3
  /\ DictKeys(directives) = {<<"s","t","a","r","t">>, <<"p","a","d">>, <<"s","i","g","n">>}
  /\ \A name \in {<<"s","t","a","r","t">>, <<"p","a","d">>, <<"s","i","g","n">>} :
       LET ks == {k \in 1..i : \E d \in DirectiveDecls : d.line = LineAt(k) /\ d.name = name}
           last == CHOOSE k \in ks : \A h \in ks : h <= k
       IN Directive(name) =
            IF ks = {} THEN None
            ELSE Some((CHOOSE d \in DirectiveDecls : d.line = LineAt(last)).num)
  /\ (Generated /\ IsSet(Directive(<<"p","a","d">>))) =>
       \E n \in 1..Len(OutLines) :
         OutLines[n] = <<" "," ","t","i","m","e","s"," ">> \o Directive(<<"p","a","d">>)[1] \o <<" ","-"," ","(","$"," ","-"," ","$","$",")"," ","d","b"," ","0">>
  /\ (Generated /\ i >= 1 /\ LineAt(i) = <<"#","!","[","p","a","d","(","0","x","1","0","0",")","]">>) =>
       /\ Directive(<<"p","a","d">>) = Some(<<"0","x","1","0","0">>)
       /\ \E n \in 1..Len(OutLines) : OutLines[n] = <<" "," ","t","i","m","e","s"," ","0","x","1","0","0"," ","-"," ","(","$"," ","-"," ","$","$",")"," ","d","b"," ","0">>
\* pad was declared as 0x100 and then as 512, and the text is written
C9_Witness ==
  /\ pc = "done"
  /\ Len(lines) >= 2
  /\ LineAt(1) = <<"#","!","[","p","a","d","(","0","x","1","0","0",")","]">>
  /\ LineAt(Len(lines)) = <<"#","!","[","p","a","d","(","5","1","2",")","]">>
  /\ Directive(<<"p","a","d">>) = Some(<<"5","1","2">>)
  /\ \E n \in 1..Len(OutLines) : OutLines[n] = <<" "," ","t","i","m","e","s"," ","5","1","2"," ","-"," ","(","$"," ","-"," ","$","$",")"," ","d","b"," ","0">>

\* C10: generate_code on a parser whose inline_asm is not empty fails with a
\* SyntaxError and returns no text, whatever the fragments are.
C10_GenerationFails ==
  [][(UnitGenerateCode /\ inline_asm # <<>>)
     => /\ pc' = "error"
        /\ exc' # None
        /\ exc'[1].type = "SyntaxError"
        /\ output_code' = None]_vars
\* the fragment asm(nop) passed the rule again, which stored nop, and nop failed it
C10_Witness ==
  /\ pc = "error"
  /\ inline_asm = <<<<"a","s","m","(","n","o","p",")">>, <<"n","o","p">>>>
  /\ exc = Some([type |-> "SyntaxError", msg |-> <<"I","n","v","a","l","i","d"," ","i","n","l","i","n","e"," ","a","s","s","e","m","b","l","y"," ","f","o","r","m","a","t",":"," ","n","o","p">>])
  /\ output_code = None

\* C11: an `end` read while no function is open raises nothing and leaves every
\* field of the parser as it was; the loop goes on to the next line.
C11_EndWithoutFunction ==
  [][(pc = "parse" /\ i < Len(lines) /\ NextLine = <<"e","n","d">> /\ current_function = None)
     => /\ pc' = "parse"
        /\ exc' = None
        /\ i' = i + 1
        /\ UNCHANGED <<architecture, directives, imports, functions, current_function,
                       code_outside_functions, inline_asm>>]_vars
\* an end as the first line, and the call after it recorded
C11_Witness ==
  /\ pc = "parse"
  /\ i = 2
  /\ LineAt(1) = <<"e","n","d">>
  /\ LineAt(2) = <<"f","o","o","(","1",",","2",")">>
  /\ code_outside_functions = <<<<"f","o","o","(","1",",","2",")">>>>
  /\ functions = <<>>

\* C12: a line read while a function is open is never appended to the free
\* statements, whatever rule takes it.
C12_FreeStatementsOutsideOnly ==
  [][(pc = "parse" /\ i < Len(lines) /\ current_function # None)
     => code_outside_functions' = code_outside_functions]_vars

\* the components of the parser a step of parse changes
ChangedComponents ==
  (IF imports' # imports THEN {"imports"} ELSE {})
  \cup (IF architecture' # architecture THEN {"architecture"} ELSE {})
  \cup (IF directives' # directives THEN {"directives"} ELSE {})
  \cup (IF functions' # functions \/ current_function' # current_function THEN {"functions"} ELSE {})
  \cup (IF code_outside_functions' # code_outside_functions THEN {"free_statements"} ELSE {})
  \cup (IF inline_asm' # inline_asm THEN {"inline_asm"} ELSE {})
\* parse goes through a line that is not blank, without error
AcceptsLine == pc = "parse" /\ i < Len(lines) /\ NextLine # <<>> /\ i' = i + 1

\* C13 as stated: every line that is not blank and is accepted changes exactly one
\* component of the parser.
C13_ExactlyOneComponent ==
  [][AcceptsLine => Cardinality(ChangedComponents) = 1]_vars

\* C13, amended: every line that is not blank and is accepted changes at most one
\* component of the parser; a call line or a free statement changes exactly one, and
\* a line that changes none is an `end` with no function open or a declaration
\* (import, architecture, directive, function) that repeats what is already there.
C13_AtMostOneComponent ==
  [][AcceptsLine =>
       /\ Cardinality(ChangedComponents) <= 1
       /\ ChangedComponents = {} =>
            \/ NextLine = <<"e","n","d">> /\ current_function = None
            \/ StartsWith(NextLine, <<"i","m","p","o","r","t">>)
            \/ StartsWith(NextLine, <<"#","!","a","r","c","h","[">>)
            \/ StartsWith(NextLine, <<"#","!","[">>)
            \/ StartsWith(NextLine, <<"f","u","n","c","t","i","o","n">>)]_vars
\* an end that changed nothing, then an import that changed the import table only
C13_Witness ==
  /\ pc = "parse"
  /\ i = 2
  /\ LineAt(1) = <<"e","n","d">>
  /\ LineAt(2) = <<"i","m","p","o","r","t"," ","f"," ","f","r","o","m"," ","m">>
  /\ imports = <<[k |-> <<"f">>, v |-> <<"m">>]>>
  /\ functions = <<>>
  /\ code_outside_functions = <<>>

\* the source read as function definitions: the function lines, the end lines, and
\* the function line that is open when line e is read (0: none)
IsFunctionLine(k) == StartsWith(LineAt(k), <<"f","u","n","c","t","i","o","n">>)
IsEndLine(k) == LineAt(k) = <<"e","n","d">>
FunctionDeclAt(k) == CHOOSE d \in FunctionDecls : FunctionLine(d.name, d.params) = LineAt(k)
OpenAt(e) ==
  LET ks == {k \in 1..(e - 1) : IsFunctionLine(k)}
      last == CHOOSE k \in ks : \A h \in ks : h <= k
  IN IF ks = {} THEN 0
     ELSE IF \E h \in (last + 1)..(e - 1) : IsEndLine(h) THEN 0
     ELSE last
\* the end lines up to line e that close a function
ClosingsUpTo(e) == {h \in 1..e : IsEndLine(h) /\ OpenAt(h) # 0}
ClosedNamesUpTo(e) == {FunctionDeclAt(OpenAt(h)).name : h \in ClosingsUpTo(e)}
\* the call-shaped lines after line a and before line b, in order
RECURSIVE CallsBetween(_, _)
CallsBetween(a, b) ==
  IF a + 1 >= b THEN <<>>
  ELSE (IF re_call(LineAt(a + 1)) THEN <<LineAt(a + 1)>> ELSE <<>>) \o CallsBetween(a + 1, b)

\* C14: at most one function is open; a function line read while another function
\* is open is accepted and replaces it: the open record is then the new function
\* with an empty body, the replaced function does not enter the table (whose keys
\* stay the names closed by an end), and the next end stores the new function alone.
C14_OpenFunctionReplaced ==
  /\ Len(current_function) <= 1
  /\ (current_function # None) = (OpenAt(i + 1) # 0)
  /\ DictKeys(functions) = ClosedNamesUpTo(i)
  /\ (pc = "error" /\ StartsWith(NextLine, <<"f","u","n","c","t","i","o","n">>)) =>
       \A d \in FunctionDecls : NextLine # FunctionLine(d.name, d.params)
  /\ \A k \in 1..i, j \in 1..i :
       (k < j /\ IsFunctionLine(k) /\ IsFunctionLine(j) /\ OpenAt(j) = k) =>
         /\ i = j =>
              current_function = Some([name |-> FunctionDeclAt(j).name,
                                       params |-> FunctionDeclAt(j).params, body |-> <<>>])
         /\ (IsEndLine(i) /\ OpenAt(i) = j) =>
              /\ current_function = None
              /\ DictGet(functions, FunctionDeclAt(j).name) =
                   [name |-> FunctionDeclAt(j).name, params |-> FunctionDeclAt(j).params,
                    body |-> CallsBetween(j, i)]
\* function f(a, b), a call, function g(), end: the table holds g alone, with no body
C14_Witness ==
  /\ pc = "parse"
  /\ i = 4
  /\ LineAt(1) = <<"f","u","n","c","t","i","o","n"," ","f","(","a",","," ","b",")">>
  /\ LineAt(2) = <<"f","o","o","(","1",",","2",")">>
  /\ LineAt(3) = <<"f","u","n","c","t","i","o","n"," ","g","(",")">>
  /\ LineAt(4) = <<"e","n","d">>
  /\ functions = <<[k |-> <<"g">>, v |-> [name |-> <<"g">>, params |-> <<>>, body |-> <<>>]]>>
  /\ current_function = None

\* C15: generate_code, run on what parse has built, leaves every field of the
\* parser as it was.
C15_GeneratorReadsOnly ==
  [][(pc = "parse" /\ i = Len(lines) /\ pc' # "parse")
     => UNCHANGED <<architecture, directives, imports, functions, current_function,
                    code_outside_functions, inline_asm>>]_vars
\* the text was generated from a parser with a function and two free statements
C15_Witness ==
  /\ pc = "write"
  /\ output_code # None
  /\ Len(functions) = 1
  /\ code_outside_functions = <<<<"m","o","v"," ","e","a","x",","," ","1">>, <<"f","o","o","(","1",",","2",")">>>>

\* the names of the functions in the order of the end lines that first closed them
RECURSIVE FirstClosings(_)
FirstClosings(e) ==
  IF e = 0 THEN <<>>
  ELSE IF e \in ClosingsUpTo(e) /\ FunctionDeclAt(OpenAt(e)).name \notin ClosedNamesUpTo(e - 1)
  THEN Append(FirstClosings(e - 1), FunctionDeclAt(OpenAt(e)).name)
  ELSE FirstClosings(e - 1)
IsLabel(l) == l # <<>> /\ l[Len(l)] = ":" /\ l # <<"_","s","t","a","r","t",":">>
Labels == SelectSeq(OutLines, IsLabel)

\* C16: the function table holds, per name, the definition closed last, in the order
\* in which the names were first closed; the generated text has one label per name
\* in that order, so closing a name again adds no label and moves none.
C16_FunctionTableLastWins ==
  /\ [n \in 1..Len(functions) |-> functions[n].k] = FirstClosings(i)
  /\ \A name \in ClosedNamesUpTo(i) :
       LET es == {e \in ClosingsUpTo(i) : FunctionDeclAt(OpenAt(e)).name = name}
           last == CHOOSE e \in es : \A h \in es : h <= e
       IN DictGet(functions, name) =
            [name |-> name, params |-> FunctionDeclAt(OpenAt(last)).params,
             body |-> CallsBetween(OpenAt(last), last)]
  /\ Generated => Labels = [n \in 1..Len(functions) |-> functions[n].k \o <<":">>]
\* f, g and f again were closed: the labels are f: and g:, and f is its second definition
C16_Witness ==
  /\ pc = "done"
  /\ Len(lines) = 7
  /\ LineAt(5) = <<"f","u","n","c","t","i","o","n"," ","f","(",")">>
  /\ Labels = <<<<"f",":">>, <<"g",":">>>>
  /\ DictGet(functions, <<"f">>) = [name |-> <<"f">>, params |-> <<>>, body |-> <<<<"f","o","o","(","1",",","2",")">>>>]

\* the line begins as an import, architecture, directive or function line
HasRulePrefix(l) ==
  \/ StartsWith(l, <<"i","m","p","o","r","t">>)
  \/ StartsWith(l, <<"#","!","a","r","c","h","[">>)
  \/ StartsWith(l, <<"#","!","[">>)
  \/ StartsWith(l, <<"f","u","n","c","t","i","o","n">>)

\* C17: a line that begins with import, #!arch[, #![ or function is taken by that
\* rule alone, call-shaped or not: it is never added to the free statements or to a
\* body, and when it fails the rule's pattern the run ends with a SyntaxError whose
\* message carries the line.
C17_FirstMatchWins ==
  [][(pc = "parse" /\ i < Len(lines) /\ HasRulePrefix(NextLine))
     => /\ code_outside_functions' = code_outside_functions
        /\ functions' = functions
        /\ \/ current_function' = current_function
           \/ /\ StartsWith(NextLine, <<"f","u","n","c","t","i","o","n">>)
              /\ current_function' # None
              /\ current_function'[1].body = <<>>
        /\ Malformed(NextLine) =>
             /\ pc' = "error"
             /\ i' = i
             /\ exc' # None
             /\ exc'[1].type = "SyntaxError"
             /\ EndsWith(exc'[1].msg, NextLine)
             /\ current_function' = current_function]_vars
\* important(1), call-shaped, read while g is open: a SyntaxError, and g's body is empty
C17_Witness ==
  /\ pc = "error"
  /\ i = 1
  /\ LineAt(1) = <<"f","u","n","c","t","i","o","n"," ","g","(",")">>
  /\ NextLine = <<"i","m","p","o","r","t","a","n","t","(","1",")">>
  /\ re_call(NextLine)
  /\ exc = Some([type |-> "SyntaxError", msg |-> <<"I","n","v","a","l","i","d"," ","i","m","p","o","r","t"," ","s","t","a","t","e","m","e","n","t",":"," ","i","m","p","o","r","t","a","n","t","(","1",")">>])
  /\ current_function = Some([name |-> <<"g">>, params |-> <<>>, body |-> <<>>])
  /\ code_outside_functions = <<>>

\* C18: the body of the open function is the sequence of the call-shaped lines read
\* since its function line, and the body of a function of the table is the sequence
\* of the call-shaped lines between the function line and the end of its last
\* definition; no other line is in a body.
C18_BodiesHoldCallLines ==
  /\ current_function # None =>
       /\ OpenAt(i + 1) # 0
       /\ current_function[1].body = CallsBetween(OpenAt(i + 1), i + 1)
       /\ \A n \in 1..Len(current_function[1].body) : re_call(current_function[1].body[n])
  /\ \A m \in 1..Len(functions) :
       LET es == {e \in ClosingsUpTo(i) : FunctionDeclAt(OpenAt(e)).name = functions[m].k}
           last == CHOOSE e \in es : \A h \in es : h <= e
       IN /\ es # {}
          /\ functions[m].v.body = CallsBetween(OpenAt(last), last)
          /\ \A n \in 1..Len(functions[m].v.body) : re_call(functions[m].v.body[n])
\* inside f a call and then mov eax, 1 were read: the body holds the call alone
C18_Witness ==
  /\ pc = "parse"
  /\ i = 3
  /\ LineAt(1) = <<"f","u","n","c","t","i","o","n"," ","f","(","a",","," ","b",")">>
  /\ LineAt(2) = <<"f","o","o","(","1",",","2",")">>
  /\ LineAt(3) = <<"m","o","v"," ","e","a","x",","," ","1">>
  /\ current_function # None
  /\ current_function[1].body = <<<<"f","o","o","(","1",",","2",")">>>>

\* the line l is a line of the text, whatever its indentation
IsOutputLine(l) == \E n \in 1..Len(OutLines) : Strip(OutLines[n]) = l
\* the function line that is still open at the end of the source (0: none)
OpenAtEnd == OpenAt(Len(lines) + 1)

\* C19: when a function is still open at the end of the source, the run does not
\* fail; the open function is not stored, so unless a function of that name was
\* closed before, the table has no entry and the text no label of that name; and a
\* call-shaped line read after its function line is no line of the text, unless the
\* same line was also read outside any function.
C19_UnclosedFunctionDropped ==
  (i = Len(lines) /\ OpenAtEnd # 0) =>
    LET name == FunctionDeclAt(OpenAtEnd).name
    IN /\ pc # "error"
       /\ current_function # None
       /\ current_function[1].name = name
       /\ DictKeys(functions) = ClosedNamesUpTo(OpenAtEnd)
       /\ Generated =>
            /\ name \notin ClosedNamesUpTo(OpenAtEnd) =>
                 ~IsOutputLine(name \o <<":">>)
            /\ \A h \in (OpenAtEnd + 1)..Len(lines) :
                 (/\ re_call(LineAt(h))
                  /\ \A g \in 1..(OpenAtEnd - 1) : ~(LineAt(g) = LineAt(h) /\ OpenAt(g) = 0))
                 => ~IsOutputLine(LineAt(h))
\* function g() and a call, no end: the text is written, with no label but _start:
C19_Witness ==
  /\ pc = "done"
  /\ Len(lines) = 2
  /\ LineAt(1) = <<"f","u","n","c","t","i","o","n"," ","g","(",")">>
  /\ LineAt(2) = <<"f","o","o","(","1",",","2",")">>
  /\ current_function = Some([name |-> <<"g">>, params |-> <<>>, body |-> <<<<"f","o","o","(","1",",","2",")">>>>])
  /\ functions = <<>>
  /\ Labels = <<>>
  /\ out_file # None
====
